---- MODULE Spec2Model ----
(***************************************************************************)
(* A model of sql-mirror's migration lifecycle controller                  *)
(* (src/lib/SQLMirrorMigrator.js), its filename codec and the part of the  *)
(* schema assembler (src/lib/generateSqlFileContent.js) the controller     *)
(* relies on.                                                              *)
(*                                                                         *)
(* Strings that the code takes apart (file names, versions, migration      *)
(* names) are sequences of one-character strings, so that split, slice,    *)
(* snakeCase and the semver functions are computed character by character. *)
(***************************************************************************)
EXTENDS Integers, Sequences, FiniteSets, TLC

(***************************************************************************)
(* Characters                                                              *)
(***************************************************************************)
Digits == <<"0", "1", "2", "3", "4", "5", "6", "7", "8", "9">>

Lowers == <<"a", "b", "c", "d", "e", "f", "g", "h", "i", "j", "k", "l", "m",
            "n", "o", "p", "q", "r", "s", "t", "u", "v", "w", "x", "y", "z">>

Uppers == <<"A", "B", "C", "D", "E", "F", "G", "H", "I", "J", "K", "L", "M",
            "N", "O", "P", "Q", "R", "S", "T", "U", "V", "W", "X", "Y", "Z">>

Range(f) == {f[i] : i \in DOMAIN f}

IsDigit(c) == c \in Range(Digits)

IsLower(c) == c \in Range(Lowers)

IsUpper(c) == c \in Range(Uppers)

IsAlnum(c) == IsDigit(c) \/ IsLower(c) \/ IsUpper(c)

DigitVal(c) == (CHOOSE i \in DOMAIN Digits : Digits[i] = c) - 1

ToLower(c) == IF IsUpper(c) THEN Lowers[CHOOSE i \in DOMAIN Uppers : Uppers[i] = c] ELSE c

(***************************************************************************)
(* String primitives of JavaScript used by the codec                       *)
(***************************************************************************)
\* s.slice(from) for 1-based from: the characters from position from on.
Drop(s, n) == SubSeq(s, n + 1, Len(s))

Take(s, n) == SubSeq(s, 1, n)

\* Whether pat occurs in s at (1-based) position i.
OccursAt(s, pat, i) ==
    /\ i >= 1
    /\ i + Len(pat) - 1 <= Len(s)
    /\ SubSeq(s, i, i + Len(pat) - 1) = pat

\* The first position at which pat occurs in s, 0 when there is none.
IndexOf(s, pat) ==
    LET hits == {i \in 1..Len(s) : OccursAt(s, pat, i)}
    IN  IF hits = {} THEN 0 ELSE CHOOSE i \in hits : \A j \in hits : i <= j

\* The last position at which the character c occurs in s, 0 when there is none.
LastIndexOf(s, c) ==
    LET hits == {i \in 1..Len(s) : s[i] = c}
    IN  IF hits = {} THEN 0 ELSE CHOOSE i \in hits : \A j \in hits : i >= j

\* String.prototype.split(sep) for a non-empty separator: the pieces between
\* the non-overlapping occurrences of sep, scanned from the left.
RECURSIVE Split(_, _)
Split(s, sep) ==
    LET i == IndexOf(s, sep)
    IN  IF i = 0 THEN <<s>>
        ELSE <<Take(s, i - 1)>> \o Split(Drop(s, i - 1 + Len(sep)), sep)

RECURSIVE Concat(_)
Concat(ss) == IF ss = <<>> THEN <<>> ELSE Head(ss) \o Concat(Tail(ss))

\* String.prototype.slice(from, to) with JavaScript's 0-based, end-exclusive
\* indices; a negative index counts from the end and is clipped to 0.
JsIndex(s, i) == IF i < 0 THEN (IF Len(s) + i < 0 THEN 0 ELSE Len(s) + i)
                 ELSE (IF i > Len(s) THEN Len(s) ELSE i)

JsSlice(s, from, to) == SubSeq(s, JsIndex(s, from) + 1, JsIndex(s, to))

(***************************************************************************)
(* snakeCase of the snake-case package: a word boundary is put between a   *)
(* lower-case letter or digit and an upper-case letter, and between an     *)
(* upper-case letter and an upper-case letter followed by a lower-case     *)
(* one; every run of other characters is a boundary; boundaries at both    *)
(* ends are dropped, the words are lower-cased and joined by "_".          *)
(***************************************************************************)
SEP == "|"

BoundaryBefore(s, i) ==
    /\ i > 1
    /\ IsUpper(s[i])
    /\ \/ IsLower(s[i - 1]) \/ IsDigit(s[i - 1])
       \/ IsUpper(s[i - 1]) /\ i < Len(s) /\ IsLower(s[i + 1])

\* The characters of s with every boundary marked by SEP.
Marked(s) ==
    Concat([i \in 1..Len(s) |->
              (IF BoundaryBefore(s, i) THEN <<SEP>> ELSE <<>>)
              \o (IF IsAlnum(s[i]) THEN <<ToLower(s[i])>> ELSE <<SEP>>)])

\* Joins the words of a marked string: SEPs at both ends go, a run of SEPs
\* becomes one "_".
RECURSIVE JoinWords(_, _)
JoinWords(m, started) ==
    IF m = <<>> THEN <<>>
    ELSE IF Head(m) # SEP THEN <<Head(m)>> \o JoinWords(Tail(m), TRUE)
    ELSE IF started /\ Len(m) >= 2 /\ m[2] # SEP
         THEN <<"_">> \o JoinWords(Tail(m), TRUE)
         ELSE JoinWords(Tail(m), started)

SnakeCase(s) == JoinWords(Marked(s), FALSE)

(***************************************************************************)
(* semver: valid, gt and inc("major") on versions without prerelease and   *)
(* build parts (an optional leading "v" is accepted, as semver does).      *)
(***************************************************************************)
IsNumericId(ds) ==
    /\ Len(ds) >= 1
    /\ \A i \in 1..Len(ds) : IsDigit(ds[i])
    /\ Len(ds) > 1 => ds[1] # "0"

RECURSIVE NumVal(_)
NumVal(ds) == IF ds = <<>> THEN 0 ELSE NumVal(Take(ds, Len(ds) - 1)) * 10 + DigitVal(ds[Len(ds)])

RECURSIVE NumStr(_)
NumStr(n) == IF n < 10 THEN <<Digits[n + 1]>> ELSE NumStr(n \div 10) \o <<Digits[(n % 10) + 1]>>

SemverCore(v) == IF Len(v) >= 1 /\ v[1] = "v" THEN Tail(v) ELSE v

\* SemverValid accepting every string.
SemverValidAnything(v) == TRUE

SemverValid(v) ==
    LET parts == Split(SemverCore(v), <<".">>)
    IN  Len(parts) = 3 /\ \A i \in 1..3 : IsNumericId(parts[i])

SemverTriple(v) ==
    LET parts == Split(SemverCore(v), <<".">>)
    IN  <<NumVal(parts[1]), NumVal(parts[2]), NumVal(parts[3])>>

SemverGt(a, b) ==
    LET x == SemverTriple(a)
        y == SemverTriple(b)
    IN  \/ x[1] > y[1]
        \/ x[1] = y[1] /\ x[2] > y[2]
        \/ x[1] = y[1] /\ x[2] = y[2] /\ x[3] > y[3]

SemverIncMajor(v) == NumStr(SemverTriple(v)[1] + 1) \o <<".", "0", ".", "0">>

(***************************************************************************)
(* node:path                                                               *)
(***************************************************************************)
\* path.parse(p).base: what follows the last "/".
PathBase(p) == Drop(p, LastIndexOf(p, "/"))

\* path.parse(p).ext: from the last "." of the base on, "" when the base has
\* no "." or only a leading one.
PathExt(p) ==
    LET b == PathBase(p)
        i == LastIndexOf(b, ".")
    IN  IF i <= 1 THEN <<>> ELSE Drop(b, i - 1)

(***************************************************************************)
(* The filename codec                                                      *)
(***************************************************************************)
MIGRATION_TYPE_SUFFIX ==
    << [type |-> "up",     suffix |-> <<"U">>, ext |-> <<".", "s", "q", "l">>],
       [type |-> "down",   suffix |-> <<"D">>, ext |-> <<".", "s", "q", "l">>],
       [type |-> "config", suffix |-> <<>>,    ext |-> <<".", "j", "s">>] >>

\* Array.prototype.find on MIGRATION_TYPE_SUFFIX: the index of the first
\* entry satisfying the test, 0 for undefined.
FindByType(type) ==
    LET hits == {i \in DOMAIN MIGRATION_TYPE_SUFFIX : MIGRATION_TYPE_SUFFIX[i].type = type}
    IN  IF hits = {} THEN 0 ELSE CHOOSE i \in hits : \A j \in hits : i <= j

FindBySuffix(suffixType) ==
    LET hits == {i \in DOMAIN MIGRATION_TYPE_SUFFIX :
                    MIGRATION_TYPE_SUFFIX[i].suffix = suffixType}
    IN  IF hits = {} THEN 0 ELSE CHOOSE i \in hits : \A j \in hits : i <= j

\* splitAtIndex cutting one character further to the right.
splitAtIndexOneOff(str, index) ==
    <<JsSlice(str, 0, index + 1), JsSlice(str, index + 1, Len(str))>>

splitAtIndex(str, index) == <<JsSlice(str, 0, index), JsSlice(str, index, Len(str))>>

\* #migrationFilenameSerialize: ok with the file name, or the error thrown.
migrationFilenameSerialize(type, version, migrationName) ==
    LET k == FindByType(type)
    IN  IF k = 0
        THEN [ok |-> FALSE, err |-> "Invalid migration type", filename |-> <<>>]
        ELSE IF ~SemverValid(version)
        THEN [ok |-> FALSE, err |-> "Invalid version", filename |-> <<>>]
        ELSE [ok |-> TRUE, err |-> "",
              filename |-> version \o MIGRATION_TYPE_SUFFIX[k].suffix \o <<"_", "_">>
                           \o SnakeCase(migrationName) \o MIGRATION_TYPE_SUFFIX[k].ext]

ParseError(e, filename) ==
    [ok |-> FALSE, err |-> e, type |-> "", version |-> <<>>, migrationName |-> <<>>,
     ext |-> <<>>, filename |-> filename]

\* #migrationFilenameParse: ok with the parsed identity, or the error thrown.
migrationFilenameParse(filepath) ==
    LET filename == PathBase(filepath)
        parts == Split(filename, <<"_", "_">>)
        fullVersion == parts[1]
        cut == splitAtIndex(fullVersion, Len(fullVersion) - 1)
        version == cut[1]
        suffixType == cut[2]
        k == FindBySuffix(suffixType)
    IN  IF k = 0 THEN ParseError("Invalid migration type suffix", filename)
        ELSE IF ~SemverValid(version) THEN ParseError("Invalid version", filename)
        ELSE IF Len(parts) < 2 THEN ParseError("TypeError", filename)
        ELSE [ok |-> TRUE, err |-> "", type |-> MIGRATION_TYPE_SUFFIX[k].type,
              version |-> version,
              migrationName |-> Split(parts[2], <<".">>)[1],
              ext |-> PathExt(filename), filename |-> filename]

(***************************************************************************)
(* SQL texts, the schema assembler's documents and the database            *)
(*                                                                         *)
(* An SQL text is [gen, part, key]: gen says whether it is a document of   *)
(* generateSqlFileContent (which wraps its content in BEGIN TRANSACTION /  *)
(* COMMIT TRANSACTION), part whether it creates ("up") or drops ("down")   *)
(* the schema objects of the migration key = <<version, name>>, or is only *)
(* a comment ("comment").                                                  *)
(***************************************************************************)
NoKey == <<>>

\* wrapTransaction(...) of the config of migration key: the up or down document.
GeneratedSql(part, key) == [gen |-> TRUE, part |-> part, key |-> key]

\* The text a user wrote into the .sql file named filename.
ManualSql(filename) ==
    LET m == migrationFilenameParse(filename)
    IN  [gen |-> FALSE, part |-> m.type, key |-> <<m.version, m.migrationName>>]

\* The texts createNextMigrationFiles writes: `-- up file`, `-- down file`.
ScaffoldSql == [gen |-> FALSE, part |-> "comment", key |-> NoKey]

\* A config module, by Object.keys of the config it returns: none for the {}
\* of a scaffolded module, or those of a config with tables.
ConfigModule(keys) == [gen |-> FALSE, part |-> "config", key |-> keys]

ConfigKeys == {<<>>, <<"tables">>}

\* generateChecksum: the md5 digest of a text (taken to be collision free).
generateChecksum(text) == [md5 |-> text]

\* The schema after the statements of text ran.
RunSql(text, sch) ==
    CASE text.part = "up"   -> sch \cup {text.key}
      [] text.part = "down" -> sch \ {text.key}
      [] OTHER              -> sch

\* ViolatesUnique for a ledger table declared without its UNIQUE constraints.
NothingUnique(led, row) == FALSE

\* The UNIQUE constraints of the ledger table on version, name and filename.
ViolatesUnique(led, row) ==
    \E i \in 1..Len(led) :
        \/ led[i].version = row.version
        \/ led[i].name = row.name
        \/ led[i].filename = row.filename

\* A document that carries its own COMMIT TRANSACTION ends the transaction
\* pool.transaction opened: what ran before it is durable, and the statements
\* after it run outside any transaction.
TxOpenAfter(text) == ~text.gen

\* What the error of a failed query of a transaction carries.  The pool is
\* given the text of the file and never its path, so the error of the text
\* names no file; the error of the ledger statement can at most carry the
\* values that statement was given.
QueryErrorAbout(at, values) ==
    IF at = "ledger" THEN {values[k] : k \in DOMAIN values \ {"checksum"}} ELSE {}

\* UpTransaction on a ledger table that accepts every INSERT.
UpTransactionUnchecked(led, sch, text, row, sqlOk) ==
    IF ~sqlOk THEN [ok |-> FALSE, at |-> "text", ledger |-> led, schema |-> sch]
    ELSE [ok |-> TRUE, at |-> "", ledger |-> Append(led, row),
          schema |-> RunSql(text, sch)]

\* pool.transaction of #executeUpMigration: the text, then the INSERT.  sqlOk
\* says whether the database accepts the text.  The result is the durable
\* state and whether the transaction function returned normally.
UpTransaction(led, sch, text, row, sqlOk) ==
    IF ~sqlOk THEN [ok |-> FALSE, at |-> "text", ledger |-> led, schema |-> sch]
    ELSE IF ViolatesUnique(led, row)
    THEN [ok |-> FALSE, at |-> "ledger", ledger |-> led,
          schema |-> IF TxOpenAfter(text) THEN sch ELSE RunSql(text, sch)]
    ELSE [ok |-> TRUE, at |-> "", ledger |-> Append(led, row),
          schema |-> RunSql(text, sch)]

\* DeleteVersion without its WHERE clause.
DeleteEveryRow(led, version) == <<>>

\* DELETE FROM the ledger WHERE version = version.
DeleteVersion(led, version) == SelectSeq(led, LAMBDA r : r.version # version)

\* pool.transaction of #executeDownMigration: the text, then the DELETE.
\* sqlOk says whether the database accepts the text, deleteOk whether it
\* then carries out the DELETE (the table may be gone, the statement may time
\* out, the connection may drop).
DownTransaction(led, sch, text, version, sqlOk, deleteOk) ==
    IF ~sqlOk THEN [ok |-> FALSE, at |-> "text", ledger |-> led, schema |-> sch]
    ELSE IF ~deleteOk
    THEN [ok |-> FALSE, at |-> "ledger", ledger |-> led,
          schema |-> IF TxOpenAfter(text) THEN sch ELSE RunSql(text, sch)]
    ELSE [ok |-> TRUE, at |-> "", ledger |-> DeleteVersion(led, version),
          schema |-> RunSql(text, sch)]

(***************************************************************************)
(* Bounds and the inputs drawn in Init                                     *)
(***************************************************************************)
\* The most migration files the directory holds initially.
MaxFiles == 3

\* The most create commands of a run.
MaxCreates == 1

V1 == <<"1", ".", "0", ".", "0">>

V2 == <<"2", ".", "0", ".", "0">>

V3 == <<"3", ".", "0", ".", "0">>

NameA == <<"a">>

NameC == <<"c">>

NameAddUsers == <<"a", "d", "d", " ", "u", "s", "e", "r", "s">>

NameAddUsersSnake == <<"a", "d", "d", "_", "u", "s", "e", "r", "s">>

FileOf(type, version, name) == migrationFilenameSerialize(type, version, name).filename

\* The files a migration directory may hold initially: three migrations in
\* version order, the first with its down file and its config module, and an
\* up file that repeats the version of the first and the name of the second.
FileUniverse ==
    { FileOf("up", V1, NameA), FileOf("down", V1, NameA), FileOf("config", V1, NameA),
      FileOf("up", V2, NameAddUsersSnake),
      FileOf("up", V3, NameC),
      FileOf("up", V1, NameAddUsersSnake) }

\* The names given to create.
CreateNames == {NameAddUsers}

\* The versions and names of the files the directory holds within the bounds:
\* those of FileUniverse and those createNextMigrationFiles adds to them.
KnownVersions == {NumStr(k) \o <<".", "0", ".", "0">> : k \in 1..(3 + MaxCreates)}

KnownMigrationNames == {NameA, NameC, NameAddUsers, NameAddUsersSnake}

KnownFiles ==
    {FileOf(type, v, n) : type \in {"up", "down", "config"},
                          v \in KnownVersions, n \in KnownMigrationNames}

\* #migrationFilenameSerialize and #migrationFilenameParse are pure: their
\* results for the files above are computed once and looked up afterwards.
SerializedFiles ==
    [type \in {"up", "down", "config"}, v \in KnownVersions, n \in KnownMigrationNames |->
        migrationFilenameSerialize(type, v, n)]

ParsedFiles == [f \in KnownFiles |-> migrationFilenameParse(f)]

Serialize(type, version, migrationName) ==
    IF version \in KnownVersions /\ migrationName \in KnownMigrationNames
    THEN SerializedFiles[type, version, migrationName]
    ELSE migrationFilenameSerialize(type, version, migrationName)

Parse(filepath) ==
    IF filepath \in KnownFiles THEN ParsedFiles[filepath]
    ELSE migrationFilenameParse(filepath)

\* The file name of a migration in the directory.
Filename(type, version, migrationName) == Serialize(type, version, migrationName).filename


Procs == {"p1", "p2"}

\* The process of the sequential specification.
MainProc == "p1"

(***************************************************************************)
(* State                                                                   *)
(***************************************************************************)
VARIABLES
    tableExists,  \* whether the ledger table sqlmirror_migration exists
    ledger,       \* the ledger's rows in the order of sqlmirror_migration_id
    schema,       \* the migrations whose schema objects exist in the database
    dirExists,    \* whether the migration directory exists
    files,        \* the names of the files in the migration directory
    content,      \* the content of each of them
    nCreated,     \* the create commands run so far
    pc,           \* per process: where its up() or down() stands
    st,           \* per process: migrationTableState, as it was read
    pending,      \* per process: migrationUpFilesToApply
    idx,          \* per process: the position of the for loop in pending
    executed,     \* per process: the SQL texts the current call has sent
    result,       \* per process: the outcome of the current or last call
    pools,        \* per process: the pools it has created and not ended
    codec,        \* the filename codec's round trip (SpecCodec)
    asm,          \* one run of generateSqlFileContent (SpecAssembler)
    exited        \* per process: how the command-line process ended

dbVars == <<tableExists, ledger, schema>>

fsVars == <<dirExists, files, content>>

procVars == <<pc, st, pending, idx, executed, result, pools>>

vars == <<tableExists, ledger, schema, dirExists, files, content, nCreated,
          pc, st, pending, idx, executed, result, pools, codec, asm, exited>>

NoRow == [version |-> <<>>, name |-> <<>>, filename |-> <<>>, checksum |-> generateChecksum(ScaffoldSql)]

MIGRATION_TABLE_STATE ==
    {"no_migrations_applied", "table_not_created", "migration_applied"}

NoResult == [op |-> "none", status |-> "none", err |-> "", about |-> {}]

Running(op) == [op |-> op, status |-> "running", err |-> "", about |-> {}]

Ok(op) == [op |-> op, status |-> "ok", err |-> "", about |-> {}]

\* The call threw err; about is the set of file names and versions the error
\* object carries.
FailedAbout(op, err, about) ==
    [op |-> op, status |-> "failed", err |-> err, about |-> about]

Failed(op, err) == FailedAbout(op, err, {})

NoCodec == [phase |-> "off"]

NoAsm == [phase |-> "off"]

\* The command-line process has not ended.
NoExit == [ended |-> FALSE, stderr |-> "", code |-> 0]

\* The end of the command-line process.  A rejected action is an uncaught
\* exception; the handler installed for it writes the error to the error
\* stream, after which the process goes on and ends as it does after a
\* fulfilled action: process.exitCode is set nowhere, so with the code 0.
ProcessExit(r) ==
    [ended |-> TRUE, stderr |-> IF r.status = "failed" THEN r.err ELSE "", code |-> 0]

IsSqlFile(f) == PathExt(f) = <<".", "s", "q", "l">>

InitialContent(f) ==
    IF IsSqlFile(f) THEN {ManualSql(f)} ELSE {ConfigModule(k) : k \in ConfigKeys}

InitDb ==
    /\ tableExists = FALSE
    /\ ledger = <<>>
    /\ schema = {}

InitFs ==
    /\ files \in {fs \in SUBSET FileUniverse : Cardinality(fs) <= MaxFiles}
    /\ dirExists \in (IF files = {} THEN BOOLEAN ELSE {TRUE})
    /\ content \in {c \in [files -> UNION {InitialContent(f) : f \in files}] :
                        \A f \in files : c[f] \in InitialContent(f)}
    /\ nCreated = 0

InitProcs ==
    /\ pc = [p \in Procs |-> "idle"]
    /\ st = [p \in Procs |-> [state |-> "table_not_created", data |-> NoRow]]
    /\ pending = [p \in Procs |-> <<>>]
    /\ idx = [p \in Procs |-> 1]
    /\ executed = [p \in Procs |-> <<>>]
    /\ result = [p \in Procs |-> NoResult]
    /\ pools = [p \in Procs |-> 0]
    /\ exited = [p \in Procs |-> NoExit]

Init == InitDb /\ InitFs /\ InitProcs /\ codec = NoCodec /\ asm = NoAsm

(***************************************************************************)
(* Reading the database and the directory                                  *)
(***************************************************************************)
\* #getMigrationTableStateFromDb: the table probe, then the row with the
\* highest sqlmirror_migration_id.
getMigrationTableStateFromDb ==
    IF ~tableExists THEN [state |-> "table_not_created", data |-> NoRow]
    ELSE IF Len(ledger) = 0 THEN [state |-> "no_migrations_applied", data |-> NoRow]
    ELSE [state |-> "migration_applied", data |-> ledger[Len(ledger)]]

\* #getAppliedMigrationsFromDb: the parsed file names of the ledger rows.
getAppliedMigrationsFromDb ==
    {Parse(ledger[i].filename) : i \in 1..Len(ledger)}

\* The orders in which fs.readdir may list a set of entries.
RECURSIVE Listings(_)
Listings(S) ==
    IF S = {} THEN {<<>>}
    ELSE UNION {{<<f>> \o l : l \in Listings(S \ {f})} : f \in S}

\* #getMigrationsFromFs without its order: the .sql entries, parsed.
SqlFiles == {f \in files : IsSqlFile(f)}

\* The error #getMigrationsFromFs throws, "" when it throws none.
ReadMigrationsError ==
    IF ~dirExists THEN "ENOENT"
    ELSE IF \E f \in SqlFiles : ~Parse(f).ok
    THEN (CHOOSE f \in SqlFiles : ~Parse(f).ok).err
    ELSE ""

\* IsPending without the comparison with the last applied version.
IsPendingLedgerOnly(f, appliedMigrations, last) ==
    LET m == Parse(f)
    IN  /\ m.type = "up"
        /\ ~\E a \in appliedMigrations : a.version = m.version

\* The filters of up(): the "up" files, without those whose version the
\* ledger holds, without those not above the last applied version.
IsPending(f, appliedMigrations, last) ==
    LET m == Parse(f)
    IN  /\ m.type = "up"
        /\ ~\E a \in appliedMigrations : a.version = m.version
        /\ last.state = "migration_applied" => SemverGt(m.version, last.data.version)

\* #getMigrationConfigPath, as the name of the file in the directory.
getMigrationConfigPath(version, migrationName) == Filename("config", version, migrationName)

\* The config-module step of up() and down(): whether the sibling module
\* exists and returns a config with keys.
Regenerates(version, migrationName) ==
    LET c == getMigrationConfigPath(version, migrationName)
    IN  c \in files /\ Len(content[c].key) > 0

\* fs.writeFile(f, text).
WriteFile(f, text) ==
    /\ files' = files \cup {f}
    /\ content' = [g \in files \cup {f} |-> IF g = f THEN text ELSE content[g]]

\* #createDbPool: createPool(databaseURL), one more pool is open.
createDbPool(n) == n + 1

\* pool.end().
PoolEnd(n) == n - 1

\* The open pools after #executeUpMigration or #executeDownMigration:
\* #createDbPool, pool.transaction, and pool.end() in the statement that
\* follows it, which a transaction that throws never reaches.
PoolsAfterTransaction(n, ok) ==
    IF ok THEN PoolEnd(createDbPool(n)) ELSE createDbPool(n)

(***************************************************************************)
(* up()                                                                    *)
(***************************************************************************)
\* generateSqlFileContent({tables: [tableConfig]}).up of #createMigrationTable.
LedgerTableSql == GeneratedSql("up", <<"sqlmirror_migration">>)

Sent(f, text) == [file |-> f, text |-> text]

\* The call returns or throws: its outcome is with the caller.
Finish(p, r) ==
    /\ pc' = [pc EXCEPT ![p] = "done"]
    /\ result' = [result EXCEPT ![p] = r]

\* UpAfterProbe without the call of #createMigrationTable.
UpAfterProbeNoCreate(s) == "up_plan"

\* Where up() goes once it knows the ledger state: to #createMigrationTable
\* when there is no table.
UpAfterProbe(s) == IF s.state = "table_not_created" THEN "up_create" ELSE "up_plan"

\* up(), to the end of its first await: the ledger state is read.
UpStart(p) ==
    /\ pc[p] = "idle"
    /\ LET s == getMigrationTableStateFromDb
       IN  /\ st' = [st EXCEPT ![p] = s]
           /\ pc' = [pc EXCEPT ![p] = UpAfterProbe(s)]
    /\ result' = [result EXCEPT ![p] = Running("up")]
    /\ exited' = [exited EXCEPT ![p] = NoExit]
    /\ UNCHANGED <<dbVars, fsVars, nCreated, pending, idx, executed, pools, codec, asm>>

\* #createMigrationTable, called by up() in state table_not_created, to the
\* end of its first await: the ledger state is read once more.
UpCreateTable(p) ==
    /\ pc[p] = "up_create"
    /\ IF getMigrationTableStateFromDb.state # "table_not_created"
       THEN Finish(p, Failed("up", "Migration table already exists"))
       ELSE /\ pc' = [pc EXCEPT ![p] = "up_ddl"]
            /\ UNCHANGED result
    /\ UNCHANGED <<dbVars, fsVars, nCreated, st, pending, idx, executed, pools, codec, asm, exited>>

\* The rest of #createMigrationTable: pool.query of the rendered DDL, a
\* CREATE TABLE IF NOT EXISTS, which leaves a table that exists by now alone.
UpCreateTableQuery(p) ==
    /\ pc[p] = "up_ddl"
    /\ tableExists' = TRUE
    /\ executed' = [executed EXCEPT ![p] = Append(@, Sent(<<>>, LedgerTableSql))]
    /\ pc' = [pc EXCEPT ![p] = "up_plan"]
    /\ UNCHANGED <<ledger, schema, fsVars, nCreated, st, pending, idx, result, pools, codec, asm, exited>>

\* up(), from #getMigrationsFromFs to the filters: the files to apply, in the
\* order of the directory listing (the filters keep the order of fs.readdir,
\* so every order of the filtered files is one a listing yields).
UpPlan(p) ==
    /\ pc[p] = "up_plan"
    /\ LET e == ReadMigrationsError
           applied == getAppliedMigrationsFromDb
       IN  IF e # ""
           THEN /\ Finish(p, Failed("up", e))
                /\ UNCHANGED pending
           ELSE /\ \E order \in Listings({f \in SqlFiles : IsPending(f, applied, st[p])}) :
                      pending' = [pending EXCEPT ![p] = order]
                /\ pc' = [pc EXCEPT ![p] = "up_apply"]
                /\ UNCHANGED result
    /\ UNCHANGED <<dbVars, fsVars, nCreated, st, idx, executed, pools, codec, asm, exited>>

\* AfterUpTransaction with the error swallowed: the loop goes on.
AfterUpTransactionGoesOn(p, ok, about) ==
    /\ idx' = [idx EXCEPT ![p] = @ + 1]
    /\ UNCHANGED <<pc, result>>

\* The for loop of up() after #executeUpMigration: on to the next file, or
\* out of up() with what the transaction threw.
AfterUpTransaction(p, ok, about) ==
    IF ok
    THEN /\ idx' = [idx EXCEPT ![p] = @ + 1]
         /\ UNCHANGED <<pc, result>>
    ELSE /\ Finish(p, FailedAbout("up", "DatabaseError", about))
         /\ UNCHANGED idx

\* UpFileContent when the config-module step leaves the up file alone.
UpFileContentOnDisk(f, m) == content[f]

\* The text #executeUpMigration reads from f: the up document the config-module
\* step of up() has just written into f, or else the text f held.
UpFileContent(f, m) ==
    IF Regenerates(m.version, m.migrationName)
    THEN GeneratedSql("up", <<m.version, m.migrationName>>)
    ELSE content[f]

\* One iteration of the for loop of up(): the config-module step, then
\* #executeUpMigration.
UpApply(p) ==
    /\ pc[p] = "up_apply"
    /\ idx[p] <= Len(pending[p])
    /\ LET f == pending[p][idx[p]]
           m == Parse(f)
           regen == Regenerates(m.version, m.migrationName)
           text == UpFileContent(f, m)
           row == [version |-> m.version, name |-> m.migrationName,
                   filename |-> PathBase(f), checksum |-> generateChecksum(text)]
       IN  /\ IF regen THEN WriteFile(f, text) ELSE UNCHANGED <<files, content>>
           /\ executed' = [executed EXCEPT ![p] = Append(@, Sent(f, text))]
           /\ \E sqlOk \in BOOLEAN :
                LET tx == UpTransaction(ledger, schema, text, row, sqlOk)
                IN  /\ ledger' = tx.ledger
                    /\ schema' = tx.schema
                    /\ pools' = [pools EXCEPT ![p] = PoolsAfterTransaction(@, tx.ok)]
                    /\ AfterUpTransaction(p, tx.ok, QueryErrorAbout(tx.at, row))
    /\ UNCHANGED <<tableExists, dirExists, nCreated, st, pending, codec, asm, exited>>

\* up() returns once the loop is through.
UpFinish(p) ==
    /\ pc[p] = "up_apply"
    /\ idx[p] > Len(pending[p])
    /\ Finish(p, Ok("up"))
    /\ UNCHANGED <<dbVars, fsVars, nCreated, st, pending, idx, executed, pools, codec, asm, exited>>

(***************************************************************************)
(* down()                                                                  *)
(***************************************************************************)
\* DownThrows without the check for a missing table.
DownThrowsOnlyWhenEmpty(s) ==
    IF s.state = "no_migrations_applied" THEN "No migrations applied" ELSE ""

\* DownThrows without the check for an empty ledger.
DownThrowsOnlyWithoutTable(s) ==
    IF s.state = "table_not_created" THEN "Migration table not created" ELSE ""

\* The error down() throws for a ledger state, "" when it goes on.
DownThrows(s) ==
    IF s.state = "table_not_created" THEN "Migration table not created"
    ELSE IF s.state = "no_migrations_applied" THEN "No migrations applied"
    ELSE ""

\* down(), to the end of its first await, and its two throws.
DownStart(p) ==
    /\ pc[p] = "idle"
    /\ LET s == getMigrationTableStateFromDb
       IN  /\ st' = [st EXCEPT ![p] = s]
           /\ IF DownThrows(s) # ""
              THEN Finish(p, Failed("down", DownThrows(s)))
              ELSE /\ pc' = [pc EXCEPT ![p] = "down_exec"]
                   /\ result' = [result EXCEPT ![p] = Running("down")]
    /\ exited' = [exited EXCEPT ![p] = NoExit]
    /\ UNCHANGED <<dbVars, fsVars, nCreated, pending, idx, executed, pools, codec, asm>>

\* The rest of down(): the down file of the last applied migration, the
\* config-module step, then #executeDownMigration.
DownExec(p) ==
    /\ pc[p] = "down_exec"
    /\ LET last == st[p].data
           f == Filename("down", last.version, last.name)
           regen == Regenerates(last.version, last.name)
           text == IF regen THEN GeneratedSql("down", <<last.version, last.name>>)
                   ELSE content[f]
           version == Parse(PathBase(f)).version
       IN  IF ~regen /\ f \notin files
           THEN /\ Finish(p, FailedAbout("down", "ENOENT", {f}))
                /\ UNCHANGED <<ledger, schema, files, content, executed, pools>>
           ELSE /\ IF regen THEN WriteFile(f, text) ELSE UNCHANGED <<files, content>>
                /\ executed' = [executed EXCEPT ![p] = Append(@, Sent(f, text))]
                /\ \E sqlOk, deleteOk \in BOOLEAN :
                     LET tx == DownTransaction(ledger, schema, text, version,
                                               sqlOk, deleteOk)
                     IN  /\ ledger' = tx.ledger
                         /\ schema' = tx.schema
                         /\ pools' = [pools EXCEPT ![p] = PoolsAfterTransaction(@, tx.ok)]
                         /\ Finish(p, IF tx.ok THEN Ok("down")
                                      ELSE FailedAbout("down", "DatabaseError",
                                              QueryErrorAbout(tx.at, [version |-> version])))
    /\ UNCHANGED <<tableExists, dirExists, nCreated, st, pending, idx, codec, asm, exited>>

(***************************************************************************)
(* create                                                                  *)
(***************************************************************************)
\* #getNextMigrationVersionFromFs: the major increment of the version of the
\* last entry of the listing (any .sql file may be listed last), of 0.0.0
\* when there is none.
NextVersions ==
    IF SqlFiles = {} THEN {SemverIncMajor(<<"0", ".", "0", ".", "0">>)}
    ELSE {SemverIncMajor(Parse(f).version) : f \in SqlFiles}

\* The three fs.writeFile calls of createNextMigrationFiles.
WriteScaffold(version, migrationName) ==
    LET up == Filename("up", version, migrationName)
        down == Filename("down", version, migrationName)
        config == Filename("config", version, migrationName)
    IN  /\ files' = files \cup {up, down, config}
        /\ content' = [g \in files \cup {up, down, config} |->
                         IF g \in {up, down} THEN ScaffoldSql
                         ELSE IF g = config THEN ConfigModule(<<>>)
                         ELSE content[g]]

\* createNextMigrationFiles(migrationName).
Create(p) ==
    /\ pc[p] = "idle"
    /\ nCreated < MaxCreates
    /\ nCreated' = nCreated + 1
    /\ \E migrationName \in CreateNames :
         IF ReadMigrationsError # ""
         THEN /\ Finish(p, Failed("create", ReadMigrationsError))
              /\ UNCHANGED fsVars
         ELSE /\ \E version \in NextVersions : WriteScaffold(version, migrationName)
              /\ dirExists' = TRUE
              /\ Finish(p, Ok("create"))
    /\ exited' = [exited EXCEPT ![p] = NoExit]
    /\ UNCHANGED <<dbVars, st, pending, idx, executed, pools, codec, asm>>

(***************************************************************************)
(* The command line                                                        *)
(***************************************************************************)
\* The action handler of the command is through and the process ends: the
\* locals of the call are gone, and the next command starts a new process.
Return(p) ==
    /\ pc[p] = "done"
    /\ pc' = [pc EXCEPT ![p] = "idle"]
    /\ st' = [st EXCEPT ![p] = [state |-> "table_not_created", data |-> NoRow]]
    /\ pending' = [pending EXCEPT ![p] = <<>>]
    /\ idx' = [idx EXCEPT ![p] = 1]
    /\ executed' = [executed EXCEPT ![p] = <<>>]
    /\ result' = [result EXCEPT ![p] = NoResult]
    /\ pools' = [pools EXCEPT ![p] = 0]
    /\ exited' = [exited EXCEPT ![p] = ProcessExit(result[p])]
    /\ UNCHANGED <<dbVars, fsVars, nCreated, codec, asm>>

(***************************************************************************)
(* The sequential specification: one process runs the commands one after   *)
(* the other.                                                              *)
(***************************************************************************)
Next ==
    \E p \in {MainProc} :
        \/ UpStart(p)
        \/ UpCreateTable(p)
        \/ UpCreateTableQuery(p)
        \/ UpPlan(p)
        \/ UpApply(p)
        \/ UpFinish(p)
        \/ DownStart(p)
        \/ DownExec(p)
        \/ Create(p)
        \/ Return(p)

Spec == Init /\ [][Next]_vars

(***************************************************************************)
(* Two processes, each running up() once against the same database and    *)
(* directory: their steps interleave at the awaits of up().                *)
(***************************************************************************)
NextConcurrent ==
    \E p \in Procs :
        \/ UpStart(p)
        \/ UpCreateTable(p)
        \/ UpCreateTableQuery(p)
        \/ UpPlan(p)
        \/ UpApply(p)
        \/ UpFinish(p)

SpecConcurrent == Init /\ [][NextConcurrent]_vars

(***************************************************************************)
(* up() called again and again on a directory that is left alone: no       *)
(* down() and no create, so no ledger row and no file ever goes away.      *)
(***************************************************************************)
NextUpOnly ==
    \E p \in {MainProc} :
        \/ UpStart(p)
        \/ UpCreateTable(p)
        \/ UpCreateTableQuery(p)
        \/ UpPlan(p)
        \/ UpApply(p)
        \/ UpFinish(p)
        \/ Return(p)

SpecUpOnly == Init /\ [][NextUpOnly]_vars

(***************************************************************************)
(* The codec on its own: an identity is serialized, and the file name is   *)
(* parsed back.                                                            *)
(***************************************************************************)
CodecTypes == {"up", "down", "config", "sideways"}

CodecVersions ==
    { V1, <<"1", "0", ".", "2", ".", "3">>, <<"0", ".", "0", ".", "1">>,
      <<"v", "2", ".", "0", ".", "0">>, <<"1", ".", "0">>,
      <<"l", "a", "t", "e", "s", "t">>,
      <<"0", "1", ".", "0", ".", "0">>, <<"1", ".", "0", ".", "0", ".", "0">> }

CodecNames ==
    { <<>>, NameA, NameAddUsersSnake, <<"a", "1">>, <<"a", "_", "b", "_", "c">>,
      NameAddUsers, <<"a", "d", "d", "U", "s", "e", "r", "s">>,
      <<"a", "_", "_", "b">>, <<"a", ".", "b">>, <<"_", "a">> }

NoSerialized == [ok |-> FALSE, err |-> "", filename |-> <<>>]

NoParsed == ParseError("", <<>>)

InitCodec ==
    /\ InitDb
    /\ files = {} /\ dirExists = FALSE /\ content = <<>> /\ nCreated = 0
    /\ InitProcs
    /\ asm = NoAsm
    /\ codec \in {[phase |-> "input", type |-> t, version |-> v, migrationName |-> n,
                   serialized |-> NoSerialized, parsed |-> NoParsed] :
                     t \in CodecTypes, v \in CodecVersions, n \in CodecNames}

CodecSerialize ==
    /\ codec.phase = "input"
    /\ codec' = [codec EXCEPT
                   !.phase = "serialized",
                   !.serialized = migrationFilenameSerialize(
                                      codec.type, codec.version, codec.migrationName)]
    /\ UNCHANGED <<dbVars, fsVars, nCreated, procVars, asm, exited>>

CodecParse ==
    /\ codec.phase = "serialized"
    /\ codec.serialized.ok
    /\ codec' = [codec EXCEPT
                   !.phase = "parsed",
                   !.parsed = migrationFilenameParse(codec.serialized.filename)]
    /\ UNCHANGED <<dbVars, fsVars, nCreated, procVars, asm, exited>>

NextCodec == CodecSerialize \/ CodecParse

SpecCodec == InitCodec /\ [][NextCodec]_vars

(***************************************************************************)
(* The schema assembler (src/lib/generateSqlFileContent.js): the order of  *)
(* the tables.  A table of a config is [name, references], references the  *)
(* tableNameRef of its references in order; a document is the sequence of  *)
(* its table statements.                                                   *)
(***************************************************************************)
Reverse(s) == [i \in 1..Len(s) |-> s[Len(s) + 1 - i]]

\* The keys of new Map(entries), given the keys of the entries: each key
\* once, at the place of its first occurrence.
RECURSIVE MapKeys(_)
MapKeys(names) ==
    IF names = <<>> THEN <<>>
    ELSE LET rest == MapKeys(Take(names, Len(names) - 1))
             last == names[Len(names)]
         IN  IF last \in Range(rest) THEN rest ELSE Append(rest, last)

\* The addEdge(table.name, reference.tableNameRef) calls, in order.
RECURSIVE EdgesOf(_)
EdgesOf(tables) ==
    IF tables = <<>> THEN <<>>
    ELSE LET t == Head(tables)
             references == IF "references" \in DOMAIN t THEN t.references ELSE <<>>
         IN  [i \in 1..Len(references) |-> <<t.name, references[i]>>]
             \o EdgesOf(Tail(tables))

\* TopologicalSort.addEdge asserts that both nodes exist and that the source
\* has no edge to the target yet: the error of the calls, "" when none fails.
AddEdgeError(keys, edges) ==
    IF \/ \E i \in 1..Len(edges) : edges[i][1] \notin Range(keys) \/ edges[i][2] \notin Range(keys)
       \/ \E i, j \in 1..Len(edges) : i < j /\ edges[i] = edges[j]
    THEN "AssertionError"
    ELSE ""

\* The children of a node, in the order its edges were added.
Children(edges, key) ==
    LET es == SelectSeq(edges, LAMBDA e : e[1] = key)
    IN  [i \in 1..Len(es) |-> es[i][2]]

\* exploreNode with its check of the explored path left out.
NeverCircular(nodeKey, explorePath) == FALSE

\* The check exploreNode makes from the second node of a path on.
FormsCircularDependency(nodeKey, explorePath) ==
    explorePath # <<>> /\ nodeKey \in Range(explorePath)

\* TopologicalSort.exploreNode: a depth-first walk that pushes a node after
\* its children; s is [visited, stack, err].
RECURSIVE exploreNode(_, _, _, _)
RECURSIVE exploreChildren(_, _, _, _, _)
exploreNode(edges, nodeKey, explorePath, s) ==
    IF s.err # "" THEN s
    ELSE IF FormsCircularDependency(nodeKey, explorePath)
    THEN [s EXCEPT !.err = "circular dependency"]
    ELSE IF nodeKey \in s.visited THEN s
    ELSE LET s1 == [s EXCEPT !.visited = @ \cup {nodeKey}]
             s2 == exploreChildren(edges, Children(edges, nodeKey), 1,
                                   Append(explorePath, nodeKey), s1)
         IN  IF s2.err # "" THEN s2 ELSE [s2 EXCEPT !.stack = Append(@, nodeKey)]

exploreChildren(edges, kids, i, path, s) ==
    IF i > Len(kids) THEN s
    ELSE exploreChildren(edges, kids, i + 1, path, exploreNode(edges, kids[i], path, s))

\* TopologicalSort.sort: every node explored in the order of the keys; the
\* keys of the result are the stack from its top.
RECURSIVE exploreAll(_, _, _, _)
exploreAll(edges, keys, i, s) ==
    IF i > Len(keys) THEN s
    ELSE exploreAll(edges, keys, i + 1, exploreNode(edges, keys[i], <<>>, s))

TopologicalSort(keys, edges) ==
    LET s == exploreAll(edges, keys, 1, [visited |-> {}, stack |-> <<>>, err |-> ""])
    IN  IF s.err # "" THEN [ok |-> FALSE, err |-> s.err, keys |-> <<>>]
        ELSE [ok |-> TRUE, err |-> "", keys |-> Reverse(s.stack)]

\* sortTablesByReferences: the names of the sorted tables, a table before
\* the tables it references.
sortTablesByReferences(tables) ==
    LET keys == MapKeys([i \in 1..Len(tables) |-> tables[i].name])
        edges == EdgesOf(tables)
        e == AddEdgeError(keys, edges)
    IN  IF e # "" THEN [ok |-> FALSE, err |-> e, keys |-> <<>>]
        ELSE TopologicalSort(keys, edges)

\* The table order of generateSqlUpFileContent without its reverse().
UpTableOrderAsSorted(sortedTables) == sortedTables

\* The table order of generateSqlUpFileContent: [...sortedTables].reverse().
UpTableOrder(sortedTables) == Reverse(sortedTables)

\* The table order of generateSqlDownFileContent: sortedTables.
DownTableOrder(sortedTables) == sortedTables

\* A destructured property with its default: r.k, or d when r has no k.
Get(r, k, d) == IF k \in DOMAIN r THEN r[k] ELSE d

\* PushExtensions without the look-up by name.
PushEveryExtension(allExtensions, extensions) == allExtensions \o extensions

\* The loop over plugin.extensions: an extension is pushed unless
\* allExtensions holds one of its name.
RECURSIVE PushExtensions(_, _)
PushExtensions(allExtensions, extensions) ==
    IF extensions = <<>> THEN allExtensions
    ELSE LET extension == Head(extensions)
             found == \E k \in 1..Len(allExtensions) :
                         allExtensions[k].name = extension.name
         IN  PushExtensions(IF found THEN allExtensions
                            ELSE Append(allExtensions, extension),
                            Tail(extensions))

\* The loop over the plugins of one table.
RECURSIVE PushPluginExtensions(_, _)
PushPluginExtensions(allExtensions, plugins) ==
    IF plugins = <<>> THEN allExtensions
    ELSE PushPluginExtensions(
             PushExtensions(allExtensions, Get(Head(plugins), "extensions", <<>>)),
             Tail(plugins))

\* The loop over the tables.
RECURSIVE PushTableExtensions(_, _)
PushTableExtensions(allExtensions, tables) ==
    IF tables = <<>> THEN allExtensions
    ELSE PushTableExtensions(
             PushPluginExtensions(allExtensions, Get(Head(tables), "plugins", <<>>)),
             Tail(tables))

\* allExtensions: the extensions of the config, then those of the plugins
\* of its tables.
AllExtensions(sqlFileConfig) ==
    PushTableExtensions(Get(sqlFileConfig, "extensions", <<>>),
                        Get(sqlFileConfig, "tables", <<>>))

\* sorted.get(key).node: the table the Map holds under key, the last of
\* the tables of that name.
NodeOf(tables, key) ==
    tables[CHOOSE k \in 1..Len(tables) :
              /\ tables[k].name = key
              /\ \A l \in (k + 1)..Len(tables) : tables[l].name # key]

\* The columns of the plugins, in order.
RECURSIVE PluginColumns(_)
PluginColumns(plugins) ==
    IF plugins = <<>> THEN <<>>
    ELSE Get(Head(plugins), "columns", <<>>) \o PluginColumns(Tail(plugins))

\* getTableColumns: the reference columns, the table's own columns, the
\* columns of its plugins.
getTableColumns(table) ==
    LET references == Get(table, "references", <<>>)
    IN  [k \in 1..Len(references) |-> [column |-> "ref", to |-> references[k]]]
        \o Get(table, "columns", <<>>)
        \o PluginColumns(Get(table, "plugins", <<>>))

\* The column sql.table puts first: <tableName>_id uuid ... PRIMARY KEY.
IdColumn(tableName) == [column |-> "id", of |-> tableName]

\* sql.table(tableName, columns, options): the CREATE TABLE IF NOT EXISTS
\* statement, the id column first unless options set disableId, and the
\* DROP TABLE IF EXISTS statement.  options is the set of the <<key, value>>
\* pairs of the object, {} for none.
sqlTable(tableName, columns, options) ==
    [up |-> [stmt |-> "create table", table |-> tableName,
             columns |-> (IF <<"disableId", TRUE>> \in options THEN <<>>
                          ELSE <<IdColumn(tableName)>>) \o columns],
     down |-> [stmt |-> "drop table", table |-> tableName]]

\* TableOptions for an assembler that hands no options to sql.table.
TableOptionsDropped(table) == {}

\* The options of a table as generateSqlUpFileContent hands them to sql.table.
TableOptions(table) == Get(table, "options", {})

\* The up or down fragments of the extensions (or functions), in order.
ChunkFragments(stmt, kind, chunks) ==
    [k \in 1..Len(chunks) |-> [stmt |-> stmt, kind |-> kind, chunk |-> chunks[k]]]

\* The fragments pluginTrigger(tableName, tableColumns) of the triggers of
\* the plugins, in order.
RECURSIVE TriggerFragments(_, _, _)
TriggerFragments(stmt, tableName, plugins) ==
    IF plugins = <<>> THEN <<>>
    ELSE LET triggers == Get(Head(plugins), "triggers", <<>>)
         IN  [k \in 1..Len(triggers) |->
                 [stmt |-> stmt, kind |-> "trigger", chunk |-> triggers[k],
                  table |-> tableName]]
             \o TriggerFragments(stmt, tableName, Tail(plugins))

\* One round of the table loop of generateSqlUpFileContent: the types, the
\* table, the triggers.
UpTableFragments(table) ==
    ChunkFragments("create", "type", Get(table, "types", <<>>))
    \o <<sqlTable(table.name, getTableColumns(table), TableOptions(table)).up>>
    \o TriggerFragments("create", table.name, Get(table, "plugins", <<>>))

\* One round of the table loop of generateSqlDownFileContent: the triggers,
\* the table, the types.
DownTableFragments(table) ==
    TriggerFragments("drop", table.name, Get(table, "plugins", <<>>))
    \o <<sqlTable(table.name, <<>>, Get(table, "options", {})).down>>
    \o ChunkFragments("drop", "type", Get(table, "types", <<>>))

RECURSIVE UpTablesFragments(_, _)
UpTablesFragments(tables, names) ==
    IF names = <<>> THEN <<>>
    ELSE UpTableFragments(NodeOf(tables, Head(names)))
         \o UpTablesFragments(tables, Tail(names))

RECURSIVE DownTablesFragments(_, _)
DownTablesFragments(tables, names) ==
    IF names = <<>> THEN <<>>
    ELSE DownTableFragments(NodeOf(tables, Head(names)))
         \o DownTablesFragments(tables, Tail(names))

\* generateSqlUpFileContent: the extensions, the functions, the tables in
\* the reverse of the sorted order (the blank lines are left out).
generateSqlUpFileContent(sqlFileConfig, sortedTables) ==
    ChunkFragments("create", "extension", AllExtensions(sqlFileConfig))
    \o ChunkFragments("create", "function", Get(sqlFileConfig, "functions", <<>>))
    \o UpTablesFragments(Get(sqlFileConfig, "tables", <<>>), UpTableOrder(sortedTables))

\* generateSqlDownFileContent: the tables in the sorted order, the
\* functions, the extensions.
generateSqlDownFileContent(sqlFileConfig, sortedTables) ==
    DownTablesFragments(Get(sqlFileConfig, "tables", <<>>), DownTableOrder(sortedTables))
    \o ChunkFragments("drop", "function", Get(sqlFileConfig, "functions", <<>>))
    \o ChunkFragments("drop", "extension", AllExtensions(sqlFileConfig))

\* `-- This file was generated via sql-mirror at <time>`.
generatorComment == [stmt |-> "comment"]

\* wrapTransaction with its closing statement left out.
wrapTransactionUnclosed(sqlContent) == <<[stmt |-> "begin transaction"]>> \o sqlContent

\* wrapTransaction: BEGIN TRANSACTION; the content; COMMIT TRANSACTION;
wrapTransaction(sqlContent) ==
    <<[stmt |-> "begin transaction"]>> \o sqlContent \o <<[stmt |-> "commit transaction"]>>

\* generateSqlFileContent(sqlFileConfig): the up and the down document as
\* sequences of fragments, or the error thrown by the sort of the tables.
generateSqlFileContent(sqlFileConfig) ==
    LET sorted == sortTablesByReferences(Get(sqlFileConfig, "tables", <<>>))
    IN  IF ~sorted.ok
        THEN [ok |-> FALSE, err |-> sorted.err, up |-> <<>>, down |-> <<>>]
        ELSE [ok |-> TRUE, err |-> "",
              up |-> <<generatorComment>>
                     \o wrapTransaction(generateSqlUpFileContent(sqlFileConfig, sorted.keys)),
              down |-> <<generatorComment>>
                     \o wrapTransaction(generateSqlDownFileContent(sqlFileConfig, sorted.keys))]

\* The statements of a document that create or drop a table.
TableStatements(doc) ==
    LET ts == SelectSeq(doc, LAMBDA x : x.stmt \in {"create table", "drop table"})
    IN  [k \in 1..Len(ts) |->
            [stmt |-> IF ts[k].stmt = "create table" THEN "create" ELSE "drop",
             table |-> ts[k].table]]

\* The documents of a config of tables alone, as far as the tables go.
TableDocuments(tables) ==
    LET out == generateSqlFileContent([tables |-> tables])
    IN  [ok |-> out.ok, err |-> out.err,
         up |-> TableStatements(out.up), down |-> TableStatements(out.down)]

\* The most tables of a config.
MaxTables == 3

\* The most references of a config, over all its tables.
MaxRefs == 3

TableNamePool == <<"a", "b", "c", "d", "e">>

\* The config of n tables, named in the order of the pool, whose references
\* are es, a sequence of <<table, referenced table>> by their places in the
\* pool (a referenced table beyond n is none of the config).
ConfigOf(n, es) ==
    [i \in 1..n |->
        [name |-> TableNamePool[i],
         references |-> LET mine == SelectSeq(es, LAMBDA e : e[1] = i)
                        IN  [j \in 1..Len(mine) |-> TableNamePool[mine[j][2]]]]]

\* The configs of at most maxTables tables and maxRefs references.
AssemblerConfigs(maxTables, maxRefs) ==
    UNION {{ConfigOf(n, es) :
               es \in UNION {[1..k -> (1..n) \X (1..maxTables)] : k \in 0..maxRefs}} :
           n \in 1..maxTables}

NoDocuments == [ok |-> FALSE, err |-> "", up |-> <<>>, down |-> <<>>]

InitAssembler ==
    /\ InitDb
    /\ files = {} /\ dirExists = FALSE /\ content = <<>> /\ nCreated = 0
    /\ InitProcs
    /\ codec = NoCodec
    /\ asm \in {[phase |-> "input", tables |-> c, out |-> NoDocuments] : c \in AssemblerConfigs(MaxTables, MaxRefs)}

Assemble ==
    /\ asm.phase = "input"
    /\ asm' = [asm EXCEPT !.phase = "done", !.out = TableDocuments(asm.tables)]
    /\ UNCHANGED <<dbVars, fsVars, nCreated, procVars, codec, exited>>

NextAssembler == Assemble

SpecAssembler == InitAssembler /\ [][NextAssembler]_vars

(***************************************************************************)
(* The schema assembler: the configs whose documents are rendered whole.   *)
(***************************************************************************)
\* The most tables of a config whose documents are rendered whole.
MaxDocTables == 2

\* The extensions a config lists itself: none, one, two of different names,
\* two of one name.
OwnExtensionLists ==
    {<<>>,
     <<[name |-> "uuid-ossp", by |-> "config"]>>,
     <<[name |-> "uuid-ossp", by |-> "config"], [name |-> "moddatetime", by |-> "config"]>>,
     <<[name |-> "uuid-ossp", by |-> "config"], [name |-> "uuid-ossp", by |-> "config again"]>>}

FunctionLists == {<<>>, <<"updated_at_column", "audit_row">>}

TypeLists == {<<>>, <<"status", "kind">>}

\* sql.tablePlugin.created_at: a column and nothing else.
PluginCreatedAt == [columns |-> <<[column |-> "created_at"]>>]

\* sql.tablePlugin.updated_at: an extension, a column, a trigger.
PluginUpdatedAt ==
    [extensions |-> <<[name |-> "moddatetime", by |-> "updated_at"]>>,
     columns |-> <<[column |-> "updated_at"]>>,
     triggers |-> <<"handle_updated_at">>]

\* A plugin of two extensions and two triggers.
PluginAudit ==
    [extensions |-> <<[name |-> "uuid-ossp", by |-> "audit"],
                      [name |-> "pgcrypto", by |-> "audit"]>>,
     triggers |-> <<"audit_insert", "audit_update">>]

PluginLists == {<<>>, <<PluginCreatedAt>>, <<PluginUpdatedAt, PluginAudit>>}

OptionSets == {{}, {<<"disableId", TRUE>>}, {<<"disableId", FALSE>>}}

\* The types, plugins and options of one table: every choice of plugins and
\* options, with types of its own for the table that has no plugin.
TableShapes ==
    {s \in TypeLists \X PluginLists \X OptionSets : s[1] = <<>> \/ s[2] = <<>>}

\* The configs of n tables, named in the order of the pool; chained says
\* whether each table references the next.
DocumentTables(n, chained) ==
    {[i \in 1..n |->
         [name |-> TableNamePool[i],
          references |-> IF chained /\ i < n THEN <<TableNamePool[i + 1]>> ELSE <<>>,
          types |-> v[i][1], plugins |-> v[i][2], options |-> v[i][3]]] :
       v \in [1..n -> TableShapes]}

\* A config object without any of the properties the assembler reads.
EmptyConfig == [comment |-> "empty"]

\* tableConfig of #createMigrationTable: the ledger table.
LedgerTableConfig ==
    [name |-> "sqlmirror_migration",
     columns |-> <<[column |-> "sqlmirror_migration_id"], [column |-> "version"],
                   [column |-> "name"], [column |-> "filename"],
                   [column |-> "checksum"]>>,
     options |-> {<<"disableId", TRUE>>},
     plugins |-> <<PluginCreatedAt>>]

DocumentConfigs(maxTables) ==
    {EmptyConfig, [tables |-> <<LedgerTableConfig>>]}
    \cup UNION {UNION {{[extensions |-> es, functions |-> fs, tables |-> ts] :
                           es \in OwnExtensionLists, fs \in FunctionLists,
                           ts \in DocumentTables(n, chained)} :
                       chained \in BOOLEAN} :
                n \in 0..maxTables}

InitDocument ==
    /\ InitDb
    /\ files = {} /\ dirExists = FALSE /\ content = <<>> /\ nCreated = 0
    /\ InitProcs
    /\ codec = NoCodec
    /\ asm \in {[phase |-> "config", config |-> c, out |-> NoDocuments] :
                   c \in DocumentConfigs(MaxDocTables)}

AssembleDocuments ==
    /\ asm.phase = "config"
    /\ asm' = [asm EXCEPT !.phase = "rendered", !.out = generateSqlFileContent(asm.config)]
    /\ UNCHANGED <<dbVars, fsVars, nCreated, procVars, codec, exited>>

NextDocument == AssembleDocuments

SpecDocument == InitDocument /\ [][NextDocument]_vars

(***************************************************************************)
(* Properties                                                              *)
(***************************************************************************)
VersionOf(f) == Parse(f).version

\* The "up" files of the directory.
UpFilesOnDisk == {f \in SqlFiles : Parse(f).type = "up"}

\* The migration files whose text the current call has sent, in order (the
\* DDL of the ledger table is sent with no file).
SentSql(p) == SelectSeq(executed[p], LAMBDA e : e.file # <<>>)

SentFiles(p) == [i \in 1..Len(SentSql(p)) |-> SentSql(p)[i].file]

\* The ledger as the current up() of p found it: without the rows its loop
\* has inserted.
LedgerBefore(p) == Take(ledger, Len(ledger) - (idx[p] - 1))

\* p is in, or through, the loop of an up().
InUpLoop(p) ==
    /\ result[p].op = "up"
    /\ \/ pc[p] = "up_apply"
       \/ pc[p] = "done" /\ result[p].err \in {"", "DatabaseError"}

UpSucceeded(p) == pc[p] = "done" /\ result[p] = Ok("up")

UpFailedInLoop(p) ==
    /\ pc[p] = "done"
    /\ result[p].op = "up"
    /\ result[p].status = "failed"
    /\ result[p].err = "DatabaseError"

\* The "up" files on disk whose version has no row in led and is above the
\* version of the last row of led, if there is one.
ExpectedPending(led) ==
    {f \in UpFilesOnDisk :
        /\ \A i \in 1..Len(led) : led[i].version # VersionOf(f)
        /\ Len(led) > 0 => SemverGt(VersionOf(f), led[Len(led)].version)}

\* C1: the migrations up() sets out to apply are exactly the "up" files on
\* disk whose version has no ledger row and is above the version of the last
\* ledger row, if any; an up() that succeeds has sent exactly these and
\* inserted a row for each; with last = 2.0.0, no row of 3.0.0, and 1.0.0,
\* 2.0.0, 3.0.0 on disk that is 3.0.0 alone.
C1_UpAppliesExactlyPending ==
    \A p \in {MainProc} :
        InUpLoop(p) =>
            LET before == LedgerBefore(p)
            IN  /\ Range(pending[p]) = ExpectedPending(before)
                /\ Cardinality(Range(pending[p])) = Len(pending[p])
                /\ UpSucceeded(p) =>
                      /\ SentFiles(p) = pending[p]
                      /\ ledger = before \o [i \in 1..Len(pending[p]) |->
                                               ledger[Len(before) + i]]
                      /\ \A i \in 1..Len(pending[p]) :
                            ledger[Len(before) + i].filename = pending[p][i]
                /\ ( /\ Len(before) > 0
                     /\ before[Len(before)].version = V2
                     /\ \A i \in 1..Len(before) : before[i].version # V3
                     /\ {VersionOf(f) : f \in UpFilesOnDisk} = {V1, V2, V3}
                     /\ Cardinality(UpFilesOnDisk) = 3 )
                   => Len(pending[p]) = 1 /\ VersionOf(pending[p][1]) = V3

\* An up() that found the last row at 2.0.0 and 1.0.0, 2.0.0, 3.0.0 on disk
\* has succeeded, having sent 3.0.0 alone.
C1_Witness ==
    /\ UpSucceeded(MainProc)
    /\ st[MainProc].state = "migration_applied"
    /\ st[MainProc].data.version = V2
    /\ {VersionOf(f) : f \in UpFilesOnDisk} = {V1, V2, V3}
    /\ SentFiles(MainProc) = <<Filename("up", V3, NameC)>>

\* C2: whatever the order of the directory listing, an up() that succeeds
\* has applied its pending migrations in strictly ascending version order,
\* and from no_migrations_applied it leaves the ledger's last row at the
\* highest version on disk.
C2_AppliesInAscendingOrder ==
    \A p \in {MainProc} :
        UpSucceeded(p) =>
            /\ \A i, j \in 1..Len(pending[p]) :
                  i < j => SemverGt(VersionOf(pending[p][j]), VersionOf(pending[p][i]))
            /\ (st[p].state = "no_migrations_applied" /\ UpFilesOnDisk # {}) =>
                  /\ Len(ledger) > 0
                  /\ \A f \in UpFilesOnDisk :
                        ~SemverGt(VersionOf(f), ledger[Len(ledger)].version)

\* A step of p is an iteration of the loop of up().
UpApplyStep(p) == pc[p] = "up_apply" /\ Len(executed'[p]) = Len(executed[p]) + 1

\* C3: applying one migration is atomic: when the text or the INSERT fails,
\* the ledger and the schema are as before the attempt; when both succeed,
\* the row and the schema effects of the text both persist.
C3_ApplyIsAtomic ==
    [][\A p \in {MainProc} :
          UpApplyStep(p) =>
             IF pc'[p] = "done"
             THEN ledger' = ledger /\ schema' = schema
             ELSE /\ Len(ledger') = Len(ledger) + 1
                  /\ schema' = RunSql(executed'[p][Len(executed'[p])].text, schema)]_vars

\* The state an up() is in when the k-th pending migration has failed.
FailedBatchState(p) ==
    UpFailedInLoop(p) =>
        LET k == idx[p]
        IN  /\ k \in 1..Len(pending[p])
            /\ SentFiles(p) = SubSeq(pending[p], 1, k)
            /\ Len(ledger) >= k - 1
            /\ \A i \in 1..(k - 1) :
                  ledger[Len(ledger) - (k - 1) + i].filename = pending[p][i]
            /\ \A i \in k..Len(pending[p]) :
                  \A j \in 1..Len(ledger) : ledger[j].filename # pending[p][i]

\* C4: when the k-th pending migration fails, up() ends with the failure:
\* it has sent the first k pending files once each and nothing after them,
\* the rows of the first k-1 are the last rows of the ledger, the k-th and
\* the later ones have none, and nothing of the call runs after the failure.
C4_FailureEndsTheBatch ==
    [][\A p \in {MainProc} :
          /\ (UpApplyStep(p) /\ Len(ledger') = Len(ledger)) =>
                /\ pc'[p] = "done"
                /\ result'[p].op = "up"
                /\ result'[p].status = "failed"
                /\ result'[p].err = "DatabaseError"
                /\ idx'[p] = idx[p]
          /\ FailedBatchState(p)'
          /\ UpFailedInLoop(p) =>
                /\ pc'[p] = "idle"
                /\ UNCHANGED <<dbVars, fsVars>>]_vars

\* The second of three pending migrations has failed: the first has its row.
C4_Witness ==
    /\ UpFailedInLoop(MainProc)
    /\ Len(pending[MainProc]) = 3
    /\ idx[MainProc] = 2
    /\ Len(ledger) = 1

\* C5: a down() that succeeds has sent one text, that of the down file with
\* the version and name of the last ledger row, and has removed that row and
\* no other.
C5_DownRevertsLastOnly ==
    [][\A p \in {MainProc} :
          (pc[p] = "down_exec" /\ result'[p] = Ok("down")) =>
             /\ Len(ledger) >= 1
             /\ Len(executed'[p]) = 1
             /\ LET m == Parse(executed'[p][1].file)
                    last == ledger[Len(ledger)]
                IN  /\ m.ok
                    /\ m.type = "down"
                    /\ m.version = last.version
                    /\ m.migrationName = last.name
             /\ ledger' = SubSeq(ledger, 1, Len(ledger) - 1)]_vars

\* A down() has succeeded and left an earlier row in the ledger.
C5_Witness ==
    /\ pc[MainProc] = "done"
    /\ result[MainProc] = Ok("down")
    /\ Len(ledger) >= 1
    /\ Len(executed[MainProc]) = 1

\* A step of p is the start of a down().
DownStartStep(p) == pc[p] = "idle" /\ result'[p].op = "down"

\* C6: down() without a ledger table ends at once with the no-migration-
\* table error: it sends no SQL text, writes no file and creates no table.
C6_DownWithoutTable ==
    [][\A p \in {MainProc} :
          (DownStartStep(p) /\ ~tableExists) =>
             /\ pc'[p] = "done"
             /\ result'[p] = Failed("down", "Migration table not created")
             /\ executed'[p] = <<>>
             /\ ~tableExists'
             /\ UNCHANGED <<ledger, schema, dirExists, files, content>>]_vars

\* A down() has failed for want of the table, with files on disk.
C6_Witness ==
    /\ pc[MainProc] = "done"
    /\ result[MainProc] = Failed("down", "Migration table not created")
    /\ ~tableExists
    /\ files # {}

\* C7: down() with a ledger table without rows ends at once with the
\* no-applied-migrations error: it sends no SQL text, writes no file and the
\* ledger stays empty.
C7_DownWithEmptyLedger ==
    [][\A p \in {MainProc} :
          (DownStartStep(p) /\ tableExists /\ Len(ledger) = 0) =>
             /\ pc'[p] = "done"
             /\ result'[p] = Failed("down", "No migrations applied")
             /\ executed'[p] = <<>>
             /\ ledger' = <<>>
             /\ UNCHANGED <<tableExists, schema, dirExists, files, content>>]_vars

\* A down() has failed on an empty ledger, with a down file on disk.
C7_Witness ==
    /\ pc[MainProc] = "done"
    /\ result[MainProc] = Failed("down", "No migrations applied")
    /\ tableExists
    /\ Len(ledger) = 0
    /\ Filename("down", V1, NameA) \in files

\* C8: an up() that found no ledger table has created it, sending the
\* assembler's DDL before anything else, and then sets out to apply every
\* "up" file on disk, as from an empty ledger; when it succeeds every one of
\* them has its row.
C8_UpCreatesTableThenAppliesAll ==
    \A p \in {MainProc} :
        ( /\ result[p].op = "up"
          /\ st[p].state = "table_not_created"
          /\ pc[p] \in {"up_plan", "up_apply", "done"} ) =>
            /\ tableExists
            /\ Len(executed[p]) >= 1
            /\ executed[p][1] = Sent(<<>>, LedgerTableSql)
            /\ InUpLoop(p) => Range(pending[p]) = UpFilesOnDisk
            /\ UpSucceeded(p) =>
                  {ledger[i].filename : i \in 1..Len(ledger)} = UpFilesOnDisk

\* An up() that found no table has succeeded and recorded two migrations.
C8_Witness ==
    /\ UpSucceeded(MainProc)
    /\ st[MainProc].state = "table_not_created"
    /\ Len(ledger) = 2
    /\ Len(executed[MainProc]) = 3

AtMostOneRowPerVersion ==
    \A i, j \in 1..Len(ledger) : ledger[i].version = ledger[j].version => i = j

\* C9: the ledger never holds two rows of one version, and it changes only
\* by a successful application appending the row of the applied version, or
\* by a successful down() removing the row of the reverted version.
C9_LedgerRows ==
    [][/\ AtMostOneRowPerVersion'
       /\ ledger' # ledger =>
             \E p \in {MainProc} :
                \/ /\ UpApplyStep(p)
                   /\ idx'[p] = idx[p] + 1
                   /\ Len(ledger') = Len(ledger) + 1
                   /\ SubSeq(ledger', 1, Len(ledger)) = ledger
                   /\ ledger'[Len(ledger')].version = VersionOf(pending[p][idx[p]])
                \/ /\ pc[p] = "down_exec"
                   /\ result'[p] = Ok("down")
                   /\ Len(ledger') = Len(ledger) - 1
                   /\ ledger' = SelectSeq(ledger,
                         LAMBDA r : r.version # VersionOf(executed'[p][1].file))]_vars

\* After a create, an up() over two files of one version has failed on the
\* second, the row of the first being in the ledger.
C9_Witness ==
    /\ nCreated >= 1
    /\ UpFailedInLoop(MainProc)
    /\ Len(ledger) >= 1
    /\ \E i, j \in 1..Len(pending[MainProc]) :
          /\ i < j
          /\ VersionOf(pending[MainProc][i]) = VersionOf(pending[MainProc][j])
          /\ idx[MainProc] = j

WellFormedIdentity(types) ==
    /\ codec.type \in types
    /\ SemverValid(codec.version)
    /\ SnakeCase(codec.migrationName) = codec.migrationName

RoundTrips ==
    /\ codec.parsed.ok
    /\ codec.parsed.type = codec.type
    /\ codec.parsed.version = codec.version
    /\ codec.parsed.migrationName = codec.migrationName

NotSemver ==
    { <<"1", ".", "0">>, <<"l", "a", "t", "e", "s", "t">>,
      <<"0", "1", ".", "0", ".", "0">>, <<"1", ".", "0", ".", "0", ".", "0">> }

NoFilename(s) == ~s.ok /\ s.filename = <<>>

\* C11: serialize fails with "Invalid migration type" for every type outside
\* up, down and config, and with "Invalid version" for every version that is
\* no three-component semantic version (the type being a known one: the type
\* is checked first); in both cases it produces no file name.
C11_SerializeRejects ==
    codec.phase # "input" =>
        /\ codec.type \notin {"up", "down", "config"} =>
              /\ NoFilename(codec.serialized)
              /\ codec.serialized.err = "Invalid migration type"
        /\ (codec.type \in {"up", "down", "config"} /\ codec.version \in NotSemver) =>
              /\ NoFilename(codec.serialized)
              /\ codec.serialized.err = "Invalid version"

\* serialize has rejected the version 1.0 of an up migration.
C11_Witness ==
    /\ codec.phase = "serialized"
    /\ codec.type = "up"
    /\ codec.version = <<"1", ".", "0">>
    /\ codec.migrationName = NameAddUsers
    /\ codec.serialized.err = "Invalid version"

\* The reference graph of a config: the pairs <<table, referenced table>>.
RefGraph(tables) ==
    UNION {{<<tables[i].name, r>> : r \in Range(tables[i].references)} :
           i \in 1..Len(tables)}

\* The pairs joined by a path of at most k + 1 edges of R.
RECURSIVE PathsWithin(_, _)
PathsWithin(R, k) ==
    IF k = 0 THEN R
    ELSE LET P == PathsWithin(R, k - 1)
         IN  P \cup {<<x[1][1], x[2][2]>> : x \in {y \in P \X R : y[1][2] = y[2][1]}}

HasCycle(tables) == \E e \in PathsWithin(RefGraph(tables), Len(tables)) : e[1] = e[2]

\* Every reference names a table of the config, and no table references the
\* same table twice.
ReferencesWellFormed(tables) ==
    \A i \in 1..Len(tables) :
        LET refs == tables[i].references
        IN  /\ \A j \in 1..Len(refs) : \E k \in 1..Len(tables) : tables[k].name = refs[j]
            /\ \A j, k \in 1..Len(refs) : j # k => refs[j] # refs[k]

TablesIn(doc) == [i \in 1..Len(doc) |-> doc[i].table]

PlaceIn(doc, name) == CHOOSE i \in 1..Len(doc) : doc[i].table = name

C13_CycleIsRejected ==
    (asm.phase = "done" /\ HasCycle(asm.tables)) =>
        /\ ~asm.out.ok
        /\ asm.out.up = <<>>
        /\ asm.out.down = <<>>
        /\ ReferencesWellFormed(asm.tables) => asm.out.err = "circular dependency"

\* The config in which a references b and b references a has been refused.
C13_Witness ==
    /\ asm.phase = "done"
    /\ asm.tables = << [name |-> "a", references |-> <<"b">>],
                       [name |-> "b", references |-> <<"a">>] >>
    /\ asm.out = [ok |-> FALSE, err |-> "circular dependency", up |-> <<>>, down |-> <<>>]

\* A create command runs (createNextMigrationFiles is one step).
CreateStep(p) == pc[p] = "idle" /\ result'[p].op = "create"

\* The versions of the .sql files of the directory none of which is higher.
HighestOnDisk ==
    {VersionOf(f) : f \in {g \in SqlFiles :
                              \A h \in SqlFiles : ~SemverGt(VersionOf(h), VersionOf(g))}}

ScaffoldOf(version, migrationName) ==
    { Filename("up", version, migrationName), Filename("down", version, migrationName),
      Filename("config", version, migrationName) }

\* C14 as claimed: a create that finds migration files in the directory
\* writes its three files at the major increment of the highest version on
\* disk, whatever the order of the directory listing.
C14_CreateAfterHighest ==
    [][\A p \in Procs :
          (CreateStep(p) /\ SqlFiles # {} /\ result'[p] = Ok("create")) =>
              \E v \in HighestOnDisk : \E n \in CreateNames :
                  files' = files \cup ScaffoldOf(SemverIncMajor(v), n)]_vars

\* C15 as claimed: a create that finds no migration file, the directory
\* existing or not, succeeds and writes the up, the down and the config file
\* of version 1.0.0 named add_users for the name "add users".
C15_CreateFirstMigration ==
    [][\A p \in Procs :
          (CreateStep(p) /\ SqlFiles = {}) =>
              /\ result'[p] = Ok("create")
              /\ files' = files \cup ScaffoldOf(V1, NameAddUsersSnake)
              /\ dirExists']_vars

\* The process of a command ends.
ReturnStep(p) == pc[p] = "done" /\ pc'[p] = "idle"

\* C16 as claimed: the process of an up, down or create command that failed
\* has written the failure to the error stream and ends with an exit code
\* other than 0.
C16_FailureExitsNonZero ==
    [][\A p \in Procs :
          (ReturnStep(p) /\ result[p].status = "failed") =>
              /\ exited'[p].ended
              /\ exited'[p].stderr = result[p].err
              /\ exited'[p].code # 0]_vars

\* Both processes have f among the files of their batch and have sent its
\* text to the database.
BothExecuted(f) ==
    \A p \in Procs : f \in Range(pending[p]) /\ f \in Range(SentFiles(p))

\* C17: two interleaved up() calls are kept apart by nothing but the
\* transaction and the UNIQUE constraints of the ledger table: no two rows
\* share a version, a name or a file name, and when both calls computed the
\* same pending file and sent its text, one of them has failed on the
\* database and the ledger holds at most one row of that file.
C17_OnlyTheLedgerProtects ==
    /\ \A i, j \in 1..Len(ledger) :
          i # j => /\ ledger[i].version # ledger[j].version
                   /\ ledger[i].name # ledger[j].name
                   /\ ledger[i].filename # ledger[j].filename
    /\ \A f \in files :
          BothExecuted(f) =>
              /\ \E p \in Procs : UpFailedInLoop(p)
              /\ Cardinality({i \in 1..Len(ledger) : ledger[i].filename = PathBase(f)}) <= 1

\* Both calls planned the up file of 1.0.0 a and sent its text: the first
\* inserted its row, the second failed on it.
C17_Witness ==
    /\ BothExecuted(Filename("up", V1, NameA))
    /\ pending["p1"] = pending["p2"]
    /\ \E i \in 1..Len(ledger) : ledger[i].filename = Filename("up", V1, NameA)
    /\ UpFailedInLoop("p2")
    /\ pc["p1"] \in {"up_apply", "done"} /\ result["p1"].status # "failed"

\* C18 as claimed, for calls of up() only: when up() applies a file, no row
\* the ledger held when that up() was called has a higher version than the
\* file (each such row was the last row at some time before the call, when
\* the file was on disk and had no row).
C18_LowerVersionsStaySkipped ==
    [][\A p \in Procs :
          (UpApplyStep(p) /\ Len(ledger') > Len(ledger)) =>
              \A i \in 1..Len(LedgerBefore(p)) :
                  ~SemverGt(LedgerBefore(p)[i].version, VersionOf(pending[p][idx[p]]))]_vars

\* C19: every row up() inserts records the digest of the very text its
\* transaction executed, the text of the file the row names; when the sibling
\* config module returns a config with keys, that text is the freshly
\* assembled up document and the up file on disk holds it.
C19_ChecksumOfExecutedText ==
    [][\A p \in {MainProc} :
          (UpApplyStep(p) /\ Len(ledger') = Len(ledger) + 1) =>
             LET f == pending[p][idx[p]]
                 m == Parse(f)
                 row == ledger'[Len(ledger')]
                 sent == executed'[p][Len(executed'[p])]
             IN  /\ sent.file = f
                 /\ row.filename = PathBase(f)
                 /\ row.checksum = generateChecksum(sent.text)
                 /\ sent.text = content'[f]
                 /\ Regenerates(m.version, m.migrationName) =>
                       sent.text = GeneratedSql("up", <<m.version, m.migrationName>>)]_vars

\* up() has inserted the row of a migration whose config module returns a
\* config with keys: the checksum is that of the assembled document, which
\* the up file now holds.
C19_Witness ==
    /\ Len(ledger) >= 1
    /\ Len(executed[MainProc]) >= 2
    /\ LET row == ledger[Len(ledger)]
           sent == executed[MainProc][Len(executed[MainProc])]
       IN  /\ Regenerates(row.version, row.name)
           /\ PathBase(sent.file) = row.filename
           /\ sent.text = GeneratedSql("up", <<row.version, row.name>>)
           /\ row.checksum = generateChecksum(sent.text)
           /\ content[sent.file] = sent.text

\* A step of p is the transaction of #executeDownMigration.
DownExecStep(p) == pc[p] = "down_exec" /\ Len(executed'[p]) = Len(executed[p]) + 1

ManualRevertIsAtomic ==
    [][\A p \in {MainProc} :
          (/\ DownExecStep(p)
           /\ result'[p].status = "failed"
           /\ ~executed'[p][Len(executed'[p])].text.gen) =>
             /\ ledger' = ledger
             /\ schema' = schema]_vars

\* The names by which an error can identify the migration of file f.
NamesOf(f) == {f, PathBase(f), VersionOf(f)}

\* C21: when applying or reverting a migration fails, the error the caller
\* gets carries the file name or the version of the failing migration.
C21_ErrorNamesTheMigration ==
    [][\A p \in {MainProc} :
          /\ (UpApplyStep(p) /\ result'[p].status = "failed") =>
                result'[p].about \cap NamesOf(pending[p][idx[p]]) # {}
          /\ (pc[p] = "down_exec" /\ result'[p].status = "failed") =>
                result'[p].about
                   \cap NamesOf(Filename("down", st[p].data.version, st[p].data.name)) # {}]_vars

\* The extensions (functions, types, triggers) a document renders, in order.
Rendered(doc, stmt, kind) ==
    LET xs == SelectSeq(doc, LAMBDA x : x.stmt = stmt /\ x.kind = kind)
    IN  [k \in 1..Len(xs) |-> xs[k].chunk]

\* Every extension of the plugins of the tables of a config, in the order of
\* the tables, their plugins and the extensions of each.
RECURSIVE Flatten(_)
Flatten(seqs) == IF seqs = <<>> THEN <<>> ELSE Head(seqs) \o Flatten(Tail(seqs))

ExtensionsOfPlugins(config) ==
    LET tables == Get(config, "tables", <<>>)
    IN  Flatten([i \in 1..Len(tables) |->
           Flatten([j \in 1..Len(tables[i].plugins) |->
              Get(tables[i].plugins[j], "extensions", <<>>)])])

\* The extensions of seq no earlier extension of seq or of before has the
\* name of.
FirstOfName(before, seq) ==
    LET all == before \o seq
        keep == {k \in (Len(before) + 1)..Len(all) :
                    \A l \in 1..(k - 1) : all[l].name # all[k].name}
        Nth(n) == CHOOSE k \in keep : Cardinality({l \in keep : l < k}) = n - 1
    IN  [n \in 1..Cardinality(keep) |-> all[Nth(n)]]

NamesOnce(exts) == \A k, l \in 1..Len(exts) : exts[k].name = exts[l].name => k = l

\* C22, as claimed: the up and the down document render at most one
\* extension per name, the first the config or its plugins hold of that name.
C22_OneExtensionPerName ==
    (asm.phase = "rendered" /\ asm.out.ok) =>
        LET all == Get(asm.config, "extensions", <<>>) \o ExtensionsOfPlugins(asm.config)
            up == Rendered(asm.out.up, "create", "extension")
        IN  /\ NamesOnce(up)
            /\ up = FirstOfName(<<>>, all)
            /\ Rendered(asm.out.down, "drop", "extension") = up

\* C22, amended: both documents render every extension the config lists
\* itself, in order and as often as listed, and then one extension for each
\* further name the plugins of the tables hold, the first of that name; so
\* no name is rendered twice unless the config itself lists it twice.
C22_PluginExtensionsOncePerName ==
    (asm.phase = "rendered" /\ asm.out.ok) =>
        LET own == Get(asm.config, "extensions", <<>>)
            up == Rendered(asm.out.up, "create", "extension")
        IN  /\ up = own \o FirstOfName(own, ExtensionsOfPlugins(asm.config))
            /\ Rendered(asm.out.down, "drop", "extension") = up
            /\ NamesOnce(own) => NamesOnce(up)

\* A config that lists uuid-ossp and whose two tables both carry the plugins
\* of moddatetime and of uuid-ossp, pgcrypto has been rendered: the config's
\* uuid-ossp, then moddatetime and pgcrypto of the plugins of the first table.
C22_Witness ==
    /\ asm.phase = "rendered"
    /\ asm.out.ok
    /\ Get(asm.config, "extensions", <<>>) = <<[name |-> "uuid-ossp", by |-> "config"]>>
    /\ Len(Get(asm.config, "tables", <<>>)) = 2
    /\ \A i \in 1..2 : asm.config.tables[i].plugins = <<PluginUpdatedAt, PluginAudit>>
    /\ Rendered(asm.out.up, "create", "extension")
          = <<[name |-> "uuid-ossp", by |-> "config"],
              [name |-> "moddatetime", by |-> "updated_at"],
              [name |-> "pgcrypto", by |-> "audit"]>>

\* What a document holds between BEGIN TRANSACTION and COMMIT TRANSACTION.
ContentOf(doc) == SubSeq(doc, 3, Len(doc) - 1)

\* The fragment that undoes an up fragment.
MirrorOf(x) ==
    IF x.stmt = "create table" THEN [stmt |-> "drop table", table |-> x.table]
    ELSE [x EXCEPT !.stmt = "drop"]

\* C23: the down document undoes the fragments of the up document in the
\* reverse of the order in which the up document holds them.
C23_DownMirrorsUp ==
    (asm.phase = "rendered" /\ asm.out.ok) =>
        LET up == ContentOf(asm.out.up)
        IN  ContentOf(asm.out.down) = Reverse([k \in 1..Len(up) |-> MirrorOf(up[k])])

\* The group a fragment belongs to: its kind, and its table when it has one.
GroupOf(x) ==
    IF x.stmt \in {"create table", "drop table"} THEN <<"table", x.table>>
    ELSE IF x.kind = "trigger" THEN <<"trigger", x.table>>
    ELSE <<x.kind>>

\* DownMirrorsUp for the groups alone: per table the triggers, the table,
\* the types; then the functions, then the extensions.
DownMirrorsUpByGroup ==
    (asm.phase = "rendered" /\ asm.out.ok) =>
        LET up == ContentOf(asm.out.up)
            down == ContentOf(asm.out.down)
        IN  [k \in 1..Len(down) |-> GroupOf(down[k])]
               = Reverse([k \in 1..Len(up) |-> GroupOf(up[k])])

\* The CREATE TABLE statements of a document for the table called name.
CreateTableOf(doc, name) ==
    SelectSeq(doc, LAMBDA x : x.stmt = "create table" /\ x.table = name)

StartsWithId(statement) ==
    statement.columns # <<>> /\ statement.columns[1] = IdColumn(statement.table)

OneTransaction(doc) ==
    /\ Len(doc) >= 3
    /\ doc[1] = [stmt |-> "comment"]
    /\ doc[2] = [stmt |-> "begin transaction"]
    /\ doc[Len(doc)] = [stmt |-> "commit transaction"]
    /\ \A k \in 3..(Len(doc) - 1) :
          doc[k].stmt \notin {"comment", "begin transaction", "commit transaction"}

SentGenerated(p) == executed'[p][Len(executed'[p])].text.gen

C27_UpLeavesNothingPending ==
    \A p \in {MainProc} :
        UpSucceeded(p) => ExpectedPending(ledger) = {}

\* An up() has succeeded on two files the listing gave in descending order:
\* the last ledger row is not the highest version.
C27_Witness ==
    /\ UpSucceeded(MainProc)
    /\ Len(ledger) = 2
    /\ SemverGt(ledger[1].version, ledger[2].version)
    /\ \A f \in UpFilesOnDisk : \E i \in 1..Len(ledger) : ledger[i].version = VersionOf(f)

\* A down() of p has completed without error: the row it found last is gone.
DownSucceeded(p) == pc[p] = "done" /\ result[p] = Ok("down")

\* The ledger a down() of p that succeeded had found.
LedgerBeforeDown(p) == Append(ledger, st[p].data)

\* The versions that have a row in led.
VersionsOf(led) == {led[i].version : i \in 1..Len(led)}

\* C28: when a down() has succeeded from a state a successful up() leaves
\* (nothing was pending in it), the next up() over the same files has exactly
\* the reverted version to apply, so that its success gives the ledger the
\* set of versions it held before the down(), in whatever order the rows
\* had been inserted.
C28_DownThenUpRestores ==
    \A p \in {MainProc} :
        (DownSucceeded(p) /\ ExpectedPending(LedgerBeforeDown(p)) = {}) =>
            /\ ExpectedPending(ledger) # {}
            /\ VersionsOf(ledger) \cup {VersionOf(f) : f \in ExpectedPending(ledger)}
                  = VersionsOf(LedgerBeforeDown(p))

\* The same when the rows were inserted in ascending version order and no
\* "up" file on disk below the last row was without a row.
DownThenUpRestoresAscending ==
    \A p \in {MainProc} :
        ( /\ DownSucceeded(p)
          /\ ExpectedPending(LedgerBeforeDown(p)) = {}
          /\ \A i \in 1..Len(ledger) :
                SemverGt(LedgerBeforeDown(p)[i + 1].version, ledger[i].version)
          /\ \A f \in UpFilesOnDisk : VersionOf(f) \in VersionsOf(LedgerBeforeDown(p)) ) =>
            /\ ExpectedPending(ledger) # {}
            /\ VersionsOf(ledger) \cup {VersionOf(f) : f \in ExpectedPending(ledger)}
                  = VersionsOf(LedgerBeforeDown(p))

\* C29 as claimed: a create that succeeds writes its three files at a version
\* no migration file of the directory has, so that none of the three paths
\* held a file before, whatever the files and the order of the listing.
C29_CreateNeverOverwrites ==
    [][\A p \in Procs :
          (CreateStep(p) /\ result'[p] = Ok("create")) =>
              \E f \in SqlFiles \cup {FileOf("up", <<"0", ".", "0", ".", "0">>, NameA)} :
              \E n \in CreateNames :
                  LET v == SemverIncMajor(VersionOf(f))
                  IN  /\ files' = files \cup ScaffoldOf(v, n)
                      /\ ScaffoldOf(v, n) \cap files = {}
                      /\ \A g \in SqlFiles : VersionOf(g) # v]_vars

\* C30 as claimed: when the first migration transaction of an up(), or the
\* transaction of a down(), fails, the migration directory holds the files
\* and the texts it held when the call began (nothing before that
\* transaction writes a file), also when the migration has a config module
\* that returns a non-empty config.
C30_FailedCallLeavesFiles ==
    [][\A p \in {MainProc} :
          ( /\ \/ UpApplyStep(p) /\ idx[p] = 1
               \/ DownExecStep(p)
            /\ result'[p].status = "failed"
            /\ result'[p].err = "DatabaseError" ) =>
              /\ files' = files
              /\ content' = content]_vars

\* The same for the migrations that have no config module returning a
\* non-empty config.
FailedManualCallLeavesFiles ==
    [][\A p \in {MainProc} :
          ( /\ \/ /\ UpApplyStep(p)
                  /\ LET m == Parse(pending[p][idx[p]])
                     IN  ~Regenerates(m.version, m.migrationName)
               \/ /\ DownExecStep(p)
                  /\ ~Regenerates(st[p].data.version, st[p].data.name)
            /\ result'[p].status = "failed" ) =>
              /\ files' = files
              /\ content' = content]_vars

\* The migration of the .sql file f has a sibling config module that
\* returns a non-empty config.
HasConfig(f) == Regenerates(Parse(f).version, Parse(f).migrationName)

\* C30, amended: a migration attempt of up() or down() whose transaction
\* fails leaves every other file of the directory as it was, and the .sql
\* file of the migration too unless the migration has a sibling config module
\* returning a non-empty config: then that file holds the document generated
\* from the config, written before the transaction began.
C30_FailedAttemptLeavesOtherFiles ==
    [][\A p \in {MainProc} :
          ( /\ UpApplyStep(p) \/ DownExecStep(p)
            /\ result'[p].status = "failed" ) =>
              LET sent == executed'[p][Len(executed'[p])]
                  f == sent.file
              IN  IF HasConfig(f)
                  THEN /\ files' = files \cup {f}
                       /\ content'[f] = GeneratedSql(Parse(f).type,
                                           <<Parse(f).version, Parse(f).migrationName>>)
                       /\ \A g \in files \ {f} : content'[g] = content[g]
                  ELSE /\ files' = files
                       /\ content' = content]_vars

\* An up() has failed in the transaction of 1.0.0 a, whose up file held the
\* text its author wrote and now holds the document generated from the
\* config module.
C30_Witness ==
    /\ pc[MainProc] = "done"
    /\ result[MainProc].op = "up"
    /\ result[MainProc].err = "DatabaseError"
    /\ Len(executed[MainProc]) = 1
    /\ executed[MainProc][1].file = FileOf("up", V1, NameA)
    /\ HasConfig(FileOf("up", V1, NameA))
    /\ content[FileOf("up", V1, NameA)] = GeneratedSql("up", <<V1, NameA>>)
    /\ ledger = <<>>

\* The call of p has returned or thrown.
CallEnded(p) == pc[p] = "done"

\* C31 as claimed: by the time an up() or a down() returns or throws, every
\* pool it created has been ended, also when a query or the transaction of a
\* migration failed.
C31_PoolsClosedAtReturn ==
    \A p \in {MainProc} :
        (CallEnded(p) /\ result[p].op \in {"up", "down"}) => pools[p] = 0

\* The same for the calls that return, and for those that throw before
\* #executeUpMigration or #executeDownMigration has created its pool.
PoolsClosedUnlessTransactionFailed ==
    \A p \in {MainProc} :
        (CallEnded(p) /\ result[p].err # "DatabaseError") => pools[p] = 0

====
